---- MODULE Spec2Model ----
(***************************************************************************)
(* Model of the training pipeline (src/src/train.py) and of the            *)
(* verification pipeline (src/src/test_model.py).  Two processes share a   *)
(* directory holding model.joblib and metrics.json.  The library calls     *)
(* (load_iris, train_test_split, RandomForestClassifier, joblib, json) are *)
(* modelled by what they do to the values the two scripts handle.          *)
(***************************************************************************)
EXTENDS Integers, Sequences, FiniteSets

\* ---------------------------------------------------------------- bounds
\* Rows of the modelled dataset (the reference dataset has FullRows rows).
NumRows == 5
\* Largest number of rows a fitted forest may misclassify.
MaxErrs == 1
\* Number of times the training script is started.
MaxRuns == 2
\* Items written to model.joblib by one write of the pickler.
ChunkLen == 3

\* ------------------------------------------------------ program constants
FullRows == 150
NumClasses == 3
N_ESTIMATORS == 100
SPLIT_SEED == 42
MODEL_SEED == 42
\* test_size=0.2 and the 0.8 threshold, as exact fractions <<num, den>>.
TEST_SIZE == <<1, 5>>
THRESHOLD == <<4, 5>>
\* The pickle STOP opcode, the last item of a complete model.joblib.
PickleStop == -1

\* ------------------------------------------------------------ option type
None == <<>>
Some(x) == <<x>>
IsSome(o) == o # <<>>
Get(o) == o[1]

\* ------------------------------------------------------------- arithmetic
RECURSIVE Gcd(_, _)
Gcd(a, b) == IF b = 0 THEN a ELSE Gcd(b, a % b)

\* The float value of count/total, kept as a fraction in lowest terms.
Float(count, total) ==
    LET g == Gcd(count, total) IN <<count \div g, total \div g>>

Gt(a, b) == a[1] * b[2] > b[1] * a[2]
Ge(a, b) == a[1] * b[2] >= b[1] * a[2]

\* ceil(frac * n)
CeilMul(frac, n) == (frac[1] * n + frac[2] - 1) \div frac[2]

\* f"{score:.4f}": the score in ten-thousandths, rounded to nearest.
Format4f(score) == (2 * 10000 * score[1] + score[2]) \div (2 * score[2])

\* ---------------------------------------------------------------- dataset
Rows == 1..NumRows

\* load_iris(): X is the feature matrix (a row is named by its index), y the
\* labels, sorted by class in equal blocks.
Target(n) == [i \in 1..n |-> ((i - 1) * NumClasses) \div n]
LoadIris == [data |-> [i \in Rows |-> i], target |-> Target(NumRows)]

\* --------------------------------------------------- the library's randomness
Rotation(k) == [i \in Rows |-> ((i + k - 1) % NumRows) + 1]
Reversed(p) == [i \in Rows |-> p[NumRows + 1 - i]]
\* The permutations rng.permutation(n_samples) may return.
Shuffles == {Rotation(k) : k \in 0..(NumRows - 1)}
              \cup {Reversed(Rotation(k)) : k \in 0..(NumRows - 1)}

\* The prediction tables a fitted forest may have: the true label except on
\* at most MaxErrs rows.
ForestWithErrors(E) ==
    [i \in Rows |-> IF i \in E THEN (Target(NumRows)[i] + 1) % NumClasses
                               ELSE Target(NumRows)[i]]
Forests == {ForestWithErrors(E) : E \in {S \in SUBSET Rows : Cardinality(S) <= MaxErrs}}

VARIABLES
    oracle,         \* what the library's generators yield for the seed 42
    modelFile,      \* model.joblib: [exists, content]
    metricsFile,    \* metrics.json: [exists, content]
    trainPc,        \* position of the training script
    run,            \* number of training runs started
    iris,           \* train.py: X, y
    split,          \* train.py: X_train, X_test, y_train, y_test
    model,          \* train.py: model
    scores,         \* train.py: train_score, test_score
    stdout,         \* lines printed by the current training run
    trainExit,      \* exit status of the training process
    stepLog,        \* steps the current training run has completed
    failedAt,       \* step at which the current training run faulted
    modelRun,       \* run that last wrote model.joblib
    metricsRun,     \* run that last wrote metrics.json
    modelAfterFit,  \* the in-memory model right after the last fit
    partitionsSeen, \* the train/test partitions produced so far
    reported,       \* the accuracy records written so far
    verifyPc,       \* position of the verification run
    afterTraining,  \* the verification run was started after a training run
                    \* exited 0, and no training run was started since
    outcome,        \* outcome of each check of the verification run
    observed,       \* what each check found when it loaded model.joblib
    loadedModel,    \* test_model.py: model, per check
    predictions,    \* test_model.py: predictions
    accuracy,       \* test_model.py: accuracy
    verifyExit      \* exit status of the verification process

fileVars == <<modelFile, metricsFile>>
trainVars == <<trainPc, run, iris, split, model, scores, stdout, trainExit, stepLog, failedAt>>
ghostVars == <<modelRun, metricsRun, modelAfterFit, partitionsSeen, reported>>
verifyVars == <<verifyPc, afterTraining, outcome, observed, loadedModel, predictions, accuracy, verifyExit>>
vars == <<oracle, fileVars, trainVars, ghostVars, verifyVars>>

\* ------------------------------------------------------------------ files
Missing == [exists |-> FALSE, content |-> <<>>]
\* Variant: the file is opened for appending, earlier records are kept.
OpenForWrite_Append(old) == [exists |-> TRUE, content |-> old.content]

\* open('metrics.json', 'w'): the file is created or truncated.
OpenForWrite(old) == [exists |-> TRUE, content |-> <<>>]

\* ------------------------------------------------------------- train.py
\* Variant: the model is dumped before it is fitted.
StepOrder_DumpBeforeFit ==
    <<"load", "split", "construct", "dump", "fit", "score", "metrics", "print">>

\* Variant: the metrics are computed and written before the model is dumped.
StepOrder_MetricsBeforeDump ==
    <<"load", "split", "construct", "fit", "score", "metrics", "dump", "print">>

\* The statements of train.py in the order they are executed.
StepOrder ==
    <<"load", "split", "construct", "fit", "dump", "score", "metrics", "print">>

IndexOf(step) == CHOOSE i \in 1..Len(StepOrder) : StepOrder[i] = step
After(step) ==
    IF IndexOf(step) = Len(StepOrder) THEN "done" ELSE StepOrder[IndexOf(step) + 1]
\* The statement a position belongs to.
StepOf(pc) ==
    IF pc = "dump_write" THEN "dump"
    ELSE IF pc = "metrics_write" THEN "metrics" ELSE pc
Running == {StepOrder[i] : i \in 1..Len(StepOrder)} \cup {"dump_write", "metrics_write"}

\* Variant: random_state is not passed on, every call draws afresh.
RngPermutations_Unseeded(random_state) == Shuffles

\* rng.permutation under random_state: fixed by a seed.
RngPermutations(random_state) == {oracle.perm}
\* The forest fit() builds under random_state: fixed by a seed and the data.
FittedForests(random_state) == {oracle.forest}

\* Variant: the train rows start one position early.
TrainTestSplit_Overlap(X, y, test_size, perm) ==
    LET n == Len(X)
        n_test == CeilMul(test_size, n)
        test == SubSeq(perm, 1, n_test)
        train == SubSeq(perm, n_test, n)
    IN [X_train |-> [i \in 1..Len(train) |-> X[train[i]]],
        X_test |-> [i \in 1..Len(test) |-> X[test[i]]],
        y_train |-> [i \in 1..Len(train) |-> y[train[i]]],
        y_test |-> [i \in 1..Len(test) |-> y[test[i]]]]

\* train_test_split(X, y, test_size, random_state) for one permutation:
\* n_test = ceil(test_size * n), the test rows are the first n_test of the
\* permutation and the train rows the rest.
TrainTestSplit(X, y, test_size, perm) ==
    LET n == Len(X)
        n_test == CeilMul(test_size, n)
        test == SubSeq(perm, 1, n_test)
        train == SubSeq(perm, n_test + 1, n)
    IN [X_train |-> [i \in 1..Len(train) |-> X[train[i]]],
        X_test |-> [i \in 1..Len(test) |-> X[test[i]]],
        y_train |-> [i \in 1..Len(train) |-> y[train[i]]],
        y_test |-> [i \in 1..Len(test) |-> y[test[i]]]]

\* RandomForestClassifier(n_estimators, random_state): not fitted yet.
RandomForestClassifier(n_estimators, random_state) ==
    [n_estimators |-> n_estimators, random_state |-> random_state,
     fitted |-> FALSE, estimators_ |-> <<>>]

\* Variant: the last row is left without a prediction.
Predict_DropLast(m, X) == [i \in 1..(Len(X) - 1) |-> m.estimators_[X[i]]]

\* model.predict(X): one label per row of X.
Predict(m, X) == [i \in 1..Len(X) |-> m.estimators_[X[i]]]

\* model.score(X, y): the fraction of rows predicted as labelled.
Score(m, X, y) ==
    LET p == Predict(m, X)
    IN Float(Cardinality({i \in DOMAIN p \cap DOMAIN y : p[i] = y[i]}), Len(y))

\* joblib.dump: the items written to the file for a model.
Serialize(m) ==
    <<m.n_estimators, m.random_state>>
        \o (IF m.fitted THEN <<1>> \o m.estimators_ ELSE <<0>>)
        \o <<PickleStop>>

\* Variant: joblib.dump returns after its first write.
DumpComplete_FirstWrite(all, written) == TRUE

\* joblib.dump returns once the whole pickle is written and the file closed.
DumpComplete(all, written) == written = Len(all)

\* joblib.load: the model read back from a file, or the error raised.
Load(file) ==
    LET c == file.content IN
    IF ~file.exists THEN [ok |-> FALSE, error |-> "FileNotFoundError"]
    ELSE IF Len(c) < 4 \/ c[Len(c)] # PickleStop
        THEN [ok |-> FALSE, error |-> "EOFError"]
    ELSE [ok |-> TRUE,
          model |-> [n_estimators |-> c[1], random_state |-> c[2],
                     fitted |-> (c[3] = 1),
                     estimators_ |-> SubSeq(c, 4, Len(c) - 1)]]

\* json.dump(metrics, f): the tokens of the object written.
LBrace == [tok |-> "{"]
RBrace == [tok |-> "}"]
Member(k, v) == [tok |-> "member", key |-> k, num |-> v]
JsonDump(metrics) ==
    <<LBrace, Member("train_accuracy", metrics.train_accuracy),
      Member("test_accuracy", metrics.test_accuracy), RBrace>>

\* ---------------------------------------------------------- test_model.py
Checks == {"test_model_predictions", "test_model_accuracy"}
NoOutcome == [c \in Checks |-> "not run"]
NoObservation == [c \in Checks |-> "not read"]
NoModel == [c \in Checks |-> None]

\* What a reader of a file finds in it.
FileState(file) ==
    IF ~file.exists THEN "missing"
    ELSE IF Load(file).ok THEN "complete" ELSE "partial"

\* assert len(predictions) == len(y)
PredictionsAssert(p, y) == Len(p) = Len(y)
\* Variant: assert accuracy >= 0.8
AccuracyAssert_Ge(a) == Ge(a, THRESHOLD)
\* assert accuracy > 0.8
AccuracyAssert(a) == Gt(a, THRESHOLD)

\* The body of test_model_predictions after the load: "error" when the load
\* or predict raises, "failed" when the assertion does.
CheckPredictions(ld, X, y) ==
    IF ~(ld.ok /\ ld.model.fitted) THEN "error"
    ELSE IF PredictionsAssert(Predict(ld.model, X), y) THEN "passed" ELSE "failed"

\* Variant: the check returns quietly when the model cannot be loaded.
CheckAccuracy_SkipUnloadable(ld, X, y) ==
    IF ~(ld.ok /\ ld.model.fitted) THEN "passed"
    ELSE IF AccuracyAssert(Score(ld.model, X, y)) THEN "passed" ELSE "failed"

\* The body of test_model_accuracy after the load.
CheckAccuracy(ld, X, y) ==
    IF ~(ld.ok /\ ld.model.fitted) THEN "error"
    ELSE IF AccuracyAssert(Score(ld.model, X, y)) THEN "passed" ELSE "failed"

\* pytest's exit status: 0 when every collected test passed, 1 otherwise.
PytestExitStatus(o) == IF \A c \in Checks : o[c] = "passed" THEN 0 ELSE 1

\* `pytest test_model.py` is started in the directory.
VerifyStart ==
    /\ verifyPc \in {"idle", "exited"}
    /\ verifyPc' = "test_model_predictions"
    /\ afterTraining' = (trainPc = "done")
    /\ outcome' = NoOutcome
    /\ observed' = NoObservation
    /\ loadedModel' = NoModel
    /\ predictions' = None
    /\ accuracy' = None
    /\ verifyExit' = None
    /\ UNCHANGED <<oracle, fileVars, trainVars, ghostVars>>

\* test_model_predictions(): load the data and the model, predict, assert.
TestModelPredictions ==
    /\ verifyPc = "test_model_predictions"
    /\ LET X == LoadIris.data
           y == LoadIris.target
           ld == Load(modelFile)
           me == "test_model_predictions"
       IN /\ observed' = [observed EXCEPT ![me] = FileState(modelFile)]
          /\ loadedModel' = [loadedModel EXCEPT ![me] =
                                IF ld.ok THEN Some(ld.model) ELSE None]
          /\ predictions' = IF ld.ok /\ ld.model.fitted
                                THEN Some(Predict(ld.model, X)) ELSE None
          /\ outcome' = [outcome EXCEPT ![me] = CheckPredictions(ld, X, y)]
    /\ verifyPc' = "test_model_accuracy"
    /\ UNCHANGED <<oracle, fileVars, trainVars, ghostVars, afterTraining, accuracy, verifyExit>>

\* test_model_accuracy(): load the data and the model, score, assert.
TestModelAccuracy ==
    /\ verifyPc = "test_model_accuracy"
    /\ LET X == LoadIris.data
           y == LoadIris.target
           ld == Load(modelFile)
           me == "test_model_accuracy"
       IN /\ observed' = [observed EXCEPT ![me] = FileState(modelFile)]
          /\ loadedModel' = [loadedModel EXCEPT ![me] =
                                IF ld.ok THEN Some(ld.model) ELSE None]
          /\ accuracy' = IF ld.ok /\ ld.model.fitted
                             THEN Some(Score(ld.model, X, y)) ELSE None
          /\ outcome' = [outcome EXCEPT ![me] = CheckAccuracy(ld, X, y)]
    /\ verifyPc' = "report"
    /\ UNCHANGED <<oracle, fileVars, trainVars, ghostVars, afterTraining, predictions, verifyExit>>

\* The pytest session ends and the process exits.
VerifyExit ==
    /\ verifyPc = "report"
    /\ verifyExit' = Some(PytestExitStatus(outcome))
    /\ verifyPc' = "exited"
    /\ UNCHANGED <<oracle, fileVars, trainVars, ghostVars,
                   afterTraining, outcome, observed, loadedModel, predictions, accuracy>>

Init ==
    /\ oracle \in [perm : Shuffles, forest : Forests]
    /\ modelFile = Missing
    /\ metricsFile = Missing
    /\ trainPc = "idle"
    /\ run = 0
    /\ iris = None
    /\ split = None
    /\ model = None
    /\ scores = None
    /\ stdout = <<>>
    /\ trainExit = None
    /\ stepLog = <<>>
    /\ failedAt = None
    /\ modelRun = 0
    /\ metricsRun = 0
    /\ modelAfterFit = None
    /\ partitionsSeen = {}
    /\ reported = {}
    /\ verifyPc = "idle"
    /\ afterTraining = FALSE
    /\ outcome = NoOutcome
    /\ observed = NoObservation
    /\ loadedModel = NoModel
    /\ predictions = None
    /\ accuracy = None
    /\ verifyExit = None

\* A step of train.py completes: the next statement is reached.
Advance(step) ==
    /\ trainPc' = After(step)
    /\ stepLog' = Append(stepLog, step)
    /\ trainExit' = IF After(step) = "done" THEN Some(0) ELSE trainExit
    /\ UNCHANGED <<run, failedAt>>

\* `python train.py` is started in the directory.
TrainStart ==
    /\ trainPc \in {"idle", "done", "failed"}
    /\ run < MaxRuns
    /\ run' = run + 1
    /\ trainPc' = StepOrder[1]
    /\ iris' = None /\ split' = None /\ model' = None /\ scores' = None
    /\ stdout' = <<>> /\ trainExit' = None /\ stepLog' = <<>> /\ failedAt' = None
    /\ afterTraining' = FALSE
    /\ UNCHANGED <<oracle, fileVars, ghostVars,
                   verifyPc, outcome, observed, loadedModel, predictions, accuracy, verifyExit>>

TrainLoad ==
    /\ trainPc = "load"
    /\ iris' = Some(LoadIris)
    /\ Advance("load")
    /\ UNCHANGED <<oracle, fileVars, split, model, scores, stdout, ghostVars, verifyVars>>

TrainSplit ==
    /\ trainPc = "split"
    /\ \E perm \in RngPermutations(SPLIT_SEED) :
        LET s == TrainTestSplit(Get(iris).data, Get(iris).target, TEST_SIZE, perm)
        IN /\ split' = Some(s)
           /\ partitionsSeen' = partitionsSeen \cup {<<s.X_train, s.X_test>>}
    /\ Advance("split")
    /\ UNCHANGED <<oracle, fileVars, iris, model, scores, stdout,
                   modelRun, metricsRun, modelAfterFit, reported, verifyVars>>

TrainConstruct ==
    /\ trainPc = "construct"
    /\ model' = Some(RandomForestClassifier(N_ESTIMATORS, MODEL_SEED))
    /\ Advance("construct")
    /\ UNCHANGED <<oracle, fileVars, iris, split, scores, stdout, ghostVars, verifyVars>>

TrainFit ==
    /\ trainPc = "fit"
    /\ \E forest \in FittedForests(Get(model).random_state) :
        /\ model' = Some([Get(model) EXCEPT !.fitted = TRUE, !.estimators_ = forest])
        /\ modelAfterFit' = model'
    /\ Advance("fit")
    /\ UNCHANGED <<oracle, fileVars, iris, split, scores, stdout,
                   modelRun, metricsRun, partitionsSeen, reported, verifyVars>>

\* joblib.dump opens model.joblib for writing.
TrainDumpOpen ==
    /\ trainPc = "dump"
    /\ modelFile' = [exists |-> TRUE, content |-> <<>>]
    /\ modelRun' = run
    /\ trainPc' = "dump_write"
    /\ UNCHANGED <<oracle, metricsFile, run, iris, split, model, scores, stdout,
                   trainExit, stepLog, failedAt,
                   metricsRun, modelAfterFit, partitionsSeen, reported, verifyVars>>

\* joblib.dump writes the next chunk of the pickle; after the last one the
\* file is closed and the statement is complete.
TrainDumpWrite ==
    /\ trainPc = "dump_write"
    /\ LET all == Serialize(Get(model))
           have == Len(modelFile.content)
           upto == IF have + ChunkLen < Len(all) THEN have + ChunkLen ELSE Len(all)
       IN /\ modelFile' = [modelFile EXCEPT !.content = SubSeq(all, 1, upto)]
          /\ IF DumpComplete(all, upto)
                THEN Advance("dump")
                ELSE UNCHANGED <<trainPc, run, trainExit, stepLog, failedAt>>
    /\ UNCHANGED <<oracle, metricsFile, iris, split, model, scores, stdout,
                   ghostVars, verifyVars>>

TrainScore ==
    /\ trainPc = "score"
    /\ scores' = Some([train_score |-> Score(Get(model), Get(split).X_train, Get(split).y_train),
                       test_score |-> Score(Get(model), Get(split).X_test, Get(split).y_test)])
    /\ Advance("score")
    /\ UNCHANGED <<oracle, fileVars, iris, split, model, stdout, ghostVars, verifyVars>>

\* open('metrics.json', 'w')
TrainMetricsOpen ==
    /\ trainPc = "metrics"
    /\ metricsFile' = OpenForWrite(metricsFile)
    /\ metricsRun' = run
    /\ trainPc' = "metrics_write"
    /\ UNCHANGED <<oracle, modelFile, run, iris, split, model, scores, stdout,
                   trainExit, stepLog, failedAt,
                   modelRun, modelAfterFit, partitionsSeen, reported, verifyVars>>

\* json.dump(metrics, f) and the close of the with block.
TrainMetricsWrite ==
    /\ trainPc = "metrics_write"
    /\ LET metrics == [train_accuracy |-> Get(scores).train_score,
                       test_accuracy |-> Get(scores).test_score]
       IN /\ metricsFile' = [metricsFile EXCEPT !.content = @ \o JsonDump(metrics)]
          /\ reported' = reported \cup {metrics}
    /\ Advance("metrics")
    /\ UNCHANGED <<oracle, modelFile, iris, split, model, scores, stdout,
                   modelRun, metricsRun, modelAfterFit, partitionsSeen, verifyVars>>

TrainPrint ==
    /\ trainPc = "print"
    /\ stdout' = <<[label |-> "Training accuracy", value |-> Format4f(Get(scores).train_score)],
                   [label |-> "Test accuracy", value |-> Format4f(Get(scores).test_score)]>>
    /\ Advance("print")
    /\ UNCHANGED <<oracle, fileVars, iris, split, model, scores, ghostVars, verifyVars>>

\* Variant: the exception is caught and the script carries on.
TrainFault_Swallowed ==
    /\ trainPc \in Running
    /\ failedAt' = Some(StepOf(trainPc))
    /\ trainPc' = After(StepOf(trainPc))
    /\ trainExit' = IF After(StepOf(trainPc)) = "done" THEN Some(0) ELSE trainExit
    /\ UNCHANGED <<oracle, fileVars, run, iris, split, model, scores, stdout, stepLog,
                   ghostVars, verifyVars>>

\* A library or I/O call of the current statement raises: nothing catches it,
\* the interpreter prints the traceback and exits with status 1.
TrainFault ==
    /\ trainPc \in Running
    /\ failedAt' = Some(StepOf(trainPc))
    /\ trainPc' = "failed"
    /\ trainExit' = Some(1)
    /\ UNCHANGED <<oracle, fileVars, run, iris, split, model, scores, stdout, stepLog,
                   ghostVars, verifyVars>>

Next ==
    \/ TrainStart
    \/ TrainLoad
    \/ TrainSplit
    \/ TrainConstruct
    \/ TrainFit
    \/ TrainDumpOpen
    \/ TrainDumpWrite
    \/ TrainScore
    \/ TrainMetricsOpen
    \/ TrainMetricsWrite
    \/ TrainPrint
    \/ TrainFault
    \/ VerifyStart
    \/ TestModelPredictions
    \/ TestModelAccuracy
    \/ VerifyExit

Spec == Init /\ [][Next]_vars

\* ------------------------------------------------------------- properties
X_full == LoadIris.data
y_full == LoadIris.target
\* Rows a model predicts with a label other than the true one.
Mispredicted(m) == {i \in Rows : m.estimators_[i] # y_full[i]}
InUnitInterval(v) == 0 <= v[1] /\ v[1] <= v[2] /\ v[2] > 0
RowSet(seq) == {seq[i] : i \in DOMAIN seq}
SourceOrder ==
    <<"load", "split", "construct", "fit", "dump", "score", "metrics", "print">>
PositionIn(order, step) == CHOOSE i \in 1..Len(order) : order[i] = step

\* C1: once test_model_accuracy has run, it failed by its assertion exactly
\* when a model was loaded whose accuracy over the full dataset is at most
\* 0.8 (at least a fifth of the rows mispredicted), and it passed exactly when
\* a model was loaded whose accuracy is strictly greater than 0.8.
C1_AccuracyThreshold ==
    LET me == "test_model_accuracy"
        usable == IsSome(loadedModel[me]) /\ Get(loadedModel[me]).fitted
        wrong == Cardinality(Mispredicted(Get(loadedModel[me])))
    IN outcome[me] # "not run" =>
        /\ outcome[me] = "failed" <=> (usable /\ 5 * wrong >= NumRows)
        /\ outcome[me] = "passed" <=> (usable /\ 5 * wrong < NumRows)

\* C1 witness: the accuracy check failed on a model whose accuracy is exactly 0.8.
C1_Witness ==
    /\ outcome["test_model_accuracy"] = "failed"
    /\ accuracy = Some(<<4, 5>>)

\* C2 (as claimed): no check of the verification pipeline ever finds
\* model.joblib missing or partially written.
C2_NeverMissingOrPartial ==
    \A c \in Checks : observed[c] \in {"not read", "complete"}

\* C2 (amended): when the verification run was started after a training run
\* exited 0 and no training run was started since, every check finds
\* model.joblib completely written, and both files stay completely written.
C2_CompleteAfterTraining ==
    afterTraining =>
        /\ \A c \in Checks : observed[c] \in {"not read", "complete"}
        /\ FileState(modelFile) = "complete"
        /\ metricsFile.exists /\ Len(metricsFile.content) = Len(JsonDump(
                [train_accuracy |-> <<1, 1>>, test_accuracy |-> <<1, 1>>]))

\* C2 witness: a verification run started after training found the file
\* complete in both checks.
C2_Witness ==
    /\ afterTraining
    /\ \A c \in Checks : observed[c] = "complete"

\* C3: the split is a partition of the rows: no row is in both parts, no row
\* is repeated, every row is in one part; the test part holds
\* ceil(0.2 * rows) rows and the train part the rest, the labels follow their
\* rows, and for the 150 rows of the reference dataset the sizes are 30 and 120.
C3_SplitIsPartition ==
    /\ CeilMul(TEST_SIZE, FullRows) = 30
    /\ FullRows - CeilMul(TEST_SIZE, FullRows) = 120
    /\ IsSome(split) =>
        LET s == Get(split) IN
        /\ RowSet(s.X_train) \cap RowSet(s.X_test) = {}
        /\ RowSet(s.X_train) \cup RowSet(s.X_test) = Rows
        /\ Cardinality(RowSet(s.X_train)) = Len(s.X_train)
        /\ Cardinality(RowSet(s.X_test)) = Len(s.X_test)
        /\ 5 * Len(s.X_test) >= NumRows
        /\ 5 * (Len(s.X_test) - 1) < NumRows
        /\ Len(s.X_train) = NumRows - Len(s.X_test)
        /\ \A i \in DOMAIN s.X_train : s.y_train[i] = y_full[s.X_train[i]]
        /\ \A i \in DOMAIN s.X_test : s.y_test[i] = y_full[s.X_test[i]]

\* C3 witness: a training run has split the data into a non-empty test part
\* and a larger train part.
C3_Witness ==
    /\ IsSome(split)
    /\ Len(Get(split).X_test) >= 1
    /\ Len(Get(split).X_train) > Len(Get(split).X_test)

C5_MetricsRecord ==
    trainPc = "done" =>
        LET c == metricsFile.content IN
        /\ metricsFile.exists
        /\ Len(c) = 4
        /\ c[1].tok = "{" /\ c[4].tok = "}"
        /\ c[2].tok = "member" /\ c[2].key = "train_accuracy"
        /\ c[3].tok = "member" /\ c[3].key = "test_accuracy"
        /\ InUnitInterval(c[2].num) /\ InUnitInterval(c[3].num)
        /\ c[2].num = Get(scores).train_score
        /\ c[3].num = Get(scores).test_score

\* C5 witness: the second training run completed and rewrote metrics.json.
C5_Witness ==
    /\ trainPc = "done"
    /\ run = 2
    /\ metricsRun = 2

\* C6 (as claimed): the verification pipeline exits non-zero exactly when one
\* of its two assertions failed.
C6_NonZeroIffAssertionFailed ==
    verifyPc = "exited" =>
        (Get(verifyExit) # 0 <=> \E c \in Checks : outcome[c] = "failed")

\* C6 (amended): the verification pipeline runs both checks whatever the first
\* one's outcome, exits 0 exactly when both passed and non-zero when a check
\* failed its assertion or raised while loading model.joblib; each check's
\* outcome is decided by what that check itself loaded.
C6_ExitStatus ==
    LET p == "test_model_predictions"
        a == "test_model_accuracy"
    IN
    /\ outcome[p] # "not run" => (outcome[p] = "passed" <=> observed[p] = "complete")
    /\ outcome[a] # "not run" =>
        /\ outcome[a] = "error" <=> observed[a] # "complete"
        /\ outcome[a] = "passed" <=>
            (observed[a] = "complete" /\ 5 * Cardinality(Mispredicted(Get(loadedModel[a]))) < NumRows)
    /\ verifyPc = "exited" =>
        /\ \A c \in Checks : outcome[c] # "not run"
        /\ Get(verifyExit) = 0 <=> \A c \in Checks : outcome[c] = "passed"
        /\ Get(verifyExit) \in {0, 1}

\* C6 witness: the run exited non-zero although no assertion failed; the first
\* check raised on load and the second passed.
C6_Witness ==
    /\ verifyPc = "exited"
    /\ verifyExit = Some(1)
    /\ outcome["test_model_predictions"] = "error"
    /\ outcome["test_model_accuracy"] = "passed"

\* C7: a training run that faults at a step exits 1 with exactly the steps
\* before it completed and its later effects not made; it is never resumed;
\* a run that completes every step exits 0.
C7_FaultTerminates ==
    /\ trainPc = "failed" <=> IsSome(failedAt)
    /\ IsSome(failedAt) =>
        /\ trainExit = Some(1)
        /\ stepLog = SubSeq(SourceOrder, 1, PositionIn(SourceOrder, Get(failedAt)) - 1)
        /\ PositionIn(SourceOrder, Get(failedAt)) < PositionIn(SourceOrder, "dump")
            => modelRun < run
        /\ PositionIn(SourceOrder, Get(failedAt)) < PositionIn(SourceOrder, "metrics")
            => metricsRun < run
        /\ PositionIn(SourceOrder, Get(failedAt)) <= PositionIn(SourceOrder, "print")
            => stdout = <<>>
    /\ trainPc = "done" => trainExit = Some(0) /\ stepLog = SourceOrder
    /\ trainPc \in Running => trainExit = None

\* C7 witness: a run faulted while fitting, after a run that completed.
C7_Witness ==
    /\ trainPc = "failed"
    /\ failedAt = Some("fit")
    /\ run = 2
    /\ metricsRun = 1

\* C8: whenever model.joblib is completely written, the model loaded from it
\* is fitted and predicts every row as the in-memory model did right after
\* fit; so do the predictions the verification pipeline obtained.
C8_RoundTrip ==
    /\ FileState(modelFile) = "complete" =>
        /\ IsSome(modelAfterFit)
        /\ Load(modelFile).model.fitted
        /\ Predict(Load(modelFile).model, X_full) = Predict(Get(modelAfterFit), X_full)
    /\ IsSome(predictions) =>
        /\ IsSome(modelAfterFit)
        /\ Get(predictions) = Predict(Get(modelAfterFit), X_full)

\* C8 witness: the verification pipeline predicted with a reloaded model that
\* misclassifies a row.
C8_Witness ==
    /\ IsSome(predictions)
    /\ Get(predictions) # y_full
    /\ observed["test_model_predictions"] = "complete"

\* C9: the predictions have one entry per row of the dataset, and the
\* prediction-count check never fails its assertion: it passes whenever the
\* model was loaded.
C9_PredictionCount ==
    LET me == "test_model_predictions" IN
    /\ outcome[me] # "failed"
    /\ IsSome(predictions) => Len(Get(predictions)) = NumRows
    /\ (outcome[me] # "not run" /\ observed[me] = "complete") => outcome[me] = "passed"

\* C9 witness: the prediction-count check passed.
C9_Witness ==
    /\ outcome["test_model_predictions"] = "passed"
    /\ IsSome(predictions)

\* C10: the steps of a run complete in the order fit, dump, score, metrics,
\* and the run that last wrote metrics.json is never later than the run that
\* last wrote model.joblib.
C10_MetricsNotNewerThanModel ==
    /\ stepLog = SubSeq(SourceOrder, 1, Len(stepLog))
    /\ metricsRun <= modelRun

\* C10 witness: model.joblib was rewritten by a second run that faulted before
\* it wrote metrics.json.
C10_Witness ==
    /\ metricsRun = 1
    /\ modelRun = 2
    /\ trainPc = "failed"
====
